---------------------------- MODULE Spec2Model ----------------------------
(* bme280-exporter: the GET /metrics handler of src/main.rs, its shared     *)
(* sensor behind a tokio Mutex, and the process-wide gauge registry.        *)
(* Each request is one run of `metrics`; the runtime is multi-threaded, so  *)
(* requests interleave wherever the mutex does not forbid it.               *)
EXTENDS Integers, Sequences, FiniteSets, TLC

(* ------------------------------ bounds ---------------------------------- *)
\* concurrent GET /metrics requests
NumRequests == 2
\* distinct numeric values a sensor channel may report
MaxValue == 2

Requests == 1..NumRequests
Values == 1..MaxValue

\* errors the sensor driver may hand back from a bus operation
Errors == {"I2cNack", "I2cIo"}

\* the three gauges registered at startup
GaugeNames == {"temperature", "pressure", "humidity"}

NoOne == 0

(* ------------------------- values and conversions ----------------------- *)
\* Option<f32> of one channel of read_sample
None == << >>
Some(v) == << v >>
IsSome(o) == Len(o) = 1
Unwrap(o) == o[1]

F32(n) == [width |-> 32, num |-> n]

\* the neighbourhood of each channel's readings (degrees C, hPa, percent)
Base == [temperature |-> 20, pressure |-> 1000, humidity |-> 40]

\* what read_sample may return on success: (temperature, pressure, humidity),
\* each channel present or absent, the present ones Base + n of one measurement n
Samples ==
    { [g \in GaugeNames |-> IF g \in present THEN Some(F32(Base[g] + n)) ELSE None] :
        present \in SUBSET GaugeNames, n \in Values }

\* f64::from(f32): lossless widening
F64From(x) == [width |-> 64, num |-> x.num]

\* PrometheusHandle::render: one line per gauge holding a value, showing the
\* number currently stored; a gauge never written shows no value
render(reg) == [g \in GaugeNames |-> IF IsSome(reg[g]) THEN Some(Unwrap(reg[g]).num) ELSE None]

\* AppError::into_response: the 500 body
Kapot(e) == [marker |-> "kapot: ", detail |-> e]

NoResult == [kind |-> "none"]
OkResult(body) == [kind |-> "Ok", body |-> body]
ErrResult(e) == [kind |-> "Err", err |-> e]

NoResponse == [status |-> 0]

\* the sampling configuration: what the sensor holds after power-on, and the
\* one main applies
PowerOnConfiguration ==
    [filter |-> "Off", temperature |-> "Skip", pressure |-> "Skip",
     humidity |-> "Skip", mode |-> "Sleep"]
StartupConfiguration ==
    [filter |-> "Filter4", temperature |-> "Oversample8", pressure |-> "Oversample8",
     humidity |-> "Oversample8", mode |-> "Forced"]

VARIABLES
    pc,          \* where each request's handler stands
    bme280,      \* the Mutex around the sensor: the request holding the guard, or NoOne
    waiters,     \* requests suspended in lock().await, in arrival order
    registry,    \* the gauges: None until first written, then Some(f64)
    sample,      \* the (temperature, pressure, humidity) local of each handler
    result,      \* what each handler returned
    response,    \* the HTTP response each request received
    trigger,     \* outcome of each request's take_forced_measurement: "none", "ok" or an error
    read,        \* outcome of each request's read_sample
    nTrigger,    \* how often each request invoked take_forced_measurement
    nRead,       \* how often each request invoked read_sample
    nRender,     \* how often each request invoked render
    atLock,      \* the registry as it was when each request acquired the guard
    wrote,       \* the gauges each request has written
    lockOrder,   \* the requests that acquired the guard, in acquisition order
    phase,       \* where main stands: the startup step to run next, "serving" or "panicked"
    i2c_bus,     \* whether I2cdev::new has opened the bus
    initialized, \* whether Bme280::init has succeeded
    configuration, \* the sampling configuration the sensor holds
    nConfigure   \* how often set_sampling_configuration has been applied

vars == << pc, bme280, waiters, registry, sample, result, response,
           trigger, read, nTrigger, nRead, nRender, atLock, wrote, lockOrder,
           phase, i2c_bus, initialized, configuration, nConfigure >>

\* the state main builds before it serves
process == << phase, i2c_bus, initialized, configuration, nConfigure >>

\* the state of the request handlers
handlers == << pc, bme280, waiters, registry, sample, result, response,
               trigger, read, nTrigger, nRead, nRender, atLock, wrote, lockOrder >>

ghost == << trigger, read, nTrigger, nRead, nRender, atLock, wrote >>

Init ==
    /\ pc = [r \in Requests |-> "idle"]
    /\ bme280 = NoOne
    /\ waiters = << >>
    /\ registry = [g \in GaugeNames |-> None]
    /\ sample = [r \in Requests |-> [g \in GaugeNames |-> None]]
    /\ result = [r \in Requests |-> NoResult]
    /\ response = [r \in Requests |-> NoResponse]
    /\ trigger = [r \in Requests |-> "none"]
    /\ read = [r \in Requests |-> "none"]
    /\ nTrigger = [r \in Requests |-> 0]
    /\ nRead = [r \in Requests |-> 0]
    /\ nRender = [r \in Requests |-> 0]
    /\ atLock = [r \in Requests |-> [g \in GaugeNames |-> None]]
    /\ wrote = [r \in Requests |-> {}]
    /\ lockOrder = << >>
    /\ phase = "install_recorder"
    /\ i2c_bus = "closed"
    /\ initialized = FALSE
    /\ configuration = PowerOnConfiguration
    /\ nConfigure = 0

(* ------------------------------- startup -------------------------------- *)
\* a failed .expect(): main panics and the process ends
panic ==
    /\ phase' = "panicked"

\* PrometheusBuilder::new().install_recorder().expect(..), then the three
\* register_gauge! / describe_gauge! pairs
install_recorder(ok) ==
    /\ phase = "install_recorder"
    /\ IF ok THEN phase' = "I2cdev_new" ELSE panic
    /\ UNCHANGED << i2c_bus, initialized, configuration, nConfigure, handlers >>

\* I2cdev::new(cli.i2c_device_path).expect(..), then Bme280::new_with_address
I2cdev_new(ok) ==
    /\ phase = "I2cdev_new"
    /\ IF ok
       THEN /\ i2c_bus' = "open"
            /\ phase' = "init"
       ELSE /\ panic
            /\ UNCHANGED i2c_bus
    /\ UNCHANGED << initialized, configuration, nConfigure, handlers >>

\* variant: a failed init is not looked at and main goes on
bme280_init_unchecked(ok) ==
    /\ phase = "init"
    /\ initialized' = ok
    /\ phase' = "set_sampling_configuration"
    /\ UNCHANGED << i2c_bus, configuration, nConfigure, handlers >>

\* bme280.init().expect(..)
bme280_init(ok) ==
    /\ phase = "init"
    /\ IF ok
       THEN /\ initialized' = TRUE
            /\ phase' = "set_sampling_configuration"
       ELSE /\ panic
            /\ UNCHANGED initialized
    /\ UNCHANGED << i2c_bus, configuration, nConfigure, handlers >>

\* bme280.set_sampling_configuration(..).expect(..)
set_sampling_configuration(ok) ==
    /\ phase = "set_sampling_configuration"
    /\ IF ok
       THEN /\ configuration' = StartupConfiguration
            /\ nConfigure' = nConfigure + 1
            /\ phase' = "serve"
       ELSE /\ panic
            /\ UNCHANGED << configuration, nConfigure >>
    /\ UNCHANGED << i2c_bus, initialized, handlers >>

\* AppState and Router are built, then axum::Server::bind(..).serve(..): a
\* failed bind panics, otherwise the listener takes requests
serve(ok) ==
    /\ phase = "serve"
    /\ IF ok THEN phase' = "serving" ELSE panic
    /\ UNCHANGED << i2c_bus, initialized, configuration, nConfigure, handlers >>

(* ------------------------------ the handler ----------------------------- *)
\* variant: the handler answers from an earlier request's body when there is one
metrics_cached(r) ==
    /\ phase = "serving"
    /\ pc[r] = "idle"
    /\ \A q \in Requests : q < r => pc[q] # "idle"
    /\ IF \E q \in Requests : result[q].kind = "Ok"
       THEN /\ \E q \in Requests :
                 /\ result[q].kind = "Ok"
                 /\ result' = [result EXCEPT ![r] = result[q]]
            /\ pc' = [pc EXCEPT ![r] = "returned"]
            /\ UNCHANGED waiters
       ELSE /\ pc' = [pc EXCEPT ![r] = "lock"]
            /\ waiters' = Append(waiters, r)
            /\ UNCHANGED result
    /\ UNCHANGED << bme280, registry, sample, response, ghost >>
    /\ UNCHANGED << process, lockOrder >>

\* a GET /metrics arrives: the handler starts and calls bme280.lock();
\* requests are numbered in the order they arrive
metrics(r) ==
    /\ phase = "serving"
    /\ pc[r] = "idle"
    /\ \A q \in Requests : q < r => pc[q] # "idle"
    /\ pc' = [pc EXCEPT ![r] = "lock"]
    /\ waiters' = Append(waiters, r)
    /\ UNCHANGED << bme280, registry, sample, result, response, ghost >>
    /\ UNCHANGED << process, lockOrder >>

\* variant: a lock that does not exclude a second holder
lock_no_exclusion(r) ==
    /\ pc[r] = "lock"
    /\ waiters # << >>
    /\ Head(waiters) = r
    /\ bme280' = r
    /\ waiters' = Tail(waiters)
    /\ pc' = [pc EXCEPT ![r] = "take_forced_measurement"]
    /\ atLock' = [atLock EXCEPT ![r] = registry]
    /\ UNCHANGED << registry, sample, result, response,
                    trigger, read, nTrigger, nRead, nRender, wrote >>
    /\ lockOrder' = Append(lockOrder, r)
    /\ UNCHANGED process

\* lock().await completes: the mutex is free and r is first in line
lock(r) ==
    /\ pc[r] = "lock"
    /\ bme280 = NoOne
    /\ waiters # << >>
    /\ Head(waiters) = r
    /\ bme280' = r
    /\ waiters' = Tail(waiters)
    /\ pc' = [pc EXCEPT ![r] = "take_forced_measurement"]
    /\ atLock' = [atLock EXCEPT ![r] = registry]
    /\ UNCHANGED << registry, sample, result, response,
                    trigger, read, nTrigger, nRead, nRender, wrote >>
    /\ lockOrder' = Append(lockOrder, r)
    /\ UNCHANGED process

\* variant: a dropped lock() future stays in the mutex's wait queue
cancel_stays_queued(r) ==
    /\ pc[r] = "lock"
    /\ pc' = [pc EXCEPT ![r] = "cancelled"]
    /\ UNCHANGED << bme280, waiters, registry, sample, result, response, ghost >>
    /\ UNCHANGED << process, lockOrder >>

\* the client disconnects: the server drops the handler's future, which can
\* only be suspended at its one .await, in lock(); dropping the pending lock()
\* takes the request out of the mutex's wait queue
cancel(r) ==
    /\ pc[r] = "lock"
    /\ pc' = [pc EXCEPT ![r] = "cancelled"]
    /\ waiters' = SelectSeq(waiters, LAMBDA q : q # r)
    /\ UNCHANGED << bme280, registry, sample, result, response, ghost >>
    /\ UNCHANGED << process, lockOrder >>

\* variant: the error return leaves the guard held
question_mark_leak(r, e) ==
    /\ result' = [result EXCEPT ![r] = ErrResult(e)]
    /\ bme280' = bme280
    /\ pc' = [pc EXCEPT ![r] = "returned"]

\* the `?` of an erroring sensor call: From<E> for AppError wraps the error,
\* the handler returns Err and its locals, the guard among them, are dropped
question_mark(r, e) ==
    /\ result' = [result EXCEPT ![r] = ErrResult(e)]
    /\ bme280' = NoOne
    /\ pc' = [pc EXCEPT ![r] = "returned"]

\* variant: a measurement rewrites the sampling configuration it ran under
take_forced_measurement_ok_reconfigures(r) ==
    /\ pc[r] = "take_forced_measurement"
    /\ trigger' = [trigger EXCEPT ![r] = "ok"]
    /\ nTrigger' = [nTrigger EXCEPT ![r] = @ + 1]
    /\ pc' = [pc EXCEPT ![r] = "read_sample"]
    /\ configuration' = [configuration EXCEPT !.mode = "Sleep"]
    /\ nConfigure' = nConfigure + 1
    /\ UNCHANGED << bme280, waiters, registry, sample, result, response,
                    read, nRead, nRender, atLock, wrote >>
    /\ UNCHANGED << phase, i2c_bus, initialized, lockOrder >>

\* bme280.take_forced_measurement()? succeeds
take_forced_measurement_ok(r) ==
    /\ pc[r] = "take_forced_measurement"
    /\ trigger' = [trigger EXCEPT ![r] = "ok"]
    /\ nTrigger' = [nTrigger EXCEPT ![r] = @ + 1]
    /\ pc' = [pc EXCEPT ![r] = "read_sample"]
    /\ UNCHANGED << bme280, waiters, registry, sample, result, response,
                    read, nRead, nRender, atLock, wrote >>
    /\ UNCHANGED << process, lockOrder >>

\* variant: the trigger's error is dropped and the handler goes on to read
take_forced_measurement_err_ignored(r, e) ==
    /\ pc[r] = "take_forced_measurement"
    /\ trigger' = [trigger EXCEPT ![r] = e]
    /\ nTrigger' = [nTrigger EXCEPT ![r] = @ + 1]
    /\ pc' = [pc EXCEPT ![r] = "read_sample"]
    /\ UNCHANGED << bme280, waiters, registry, sample, result, response,
                    read, nRead, nRender, atLock, wrote >>
    /\ UNCHANGED << process, lockOrder >>

\* variant: a failed trigger is tried again
take_forced_measurement_err_retry(r, e) ==
    /\ pc[r] = "take_forced_measurement"
    /\ trigger' = [trigger EXCEPT ![r] = e]
    /\ nTrigger' = [nTrigger EXCEPT ![r] = @ + 1]
    /\ pc' = [pc EXCEPT ![r] = "take_forced_measurement"]
    /\ UNCHANGED << bme280, waiters, registry, sample, result, response,
                    read, nRead, nRender, atLock, wrote >>
    /\ UNCHANGED << process, lockOrder >>

\* bme280.take_forced_measurement()? fails with e
take_forced_measurement_err(r, e) ==
    /\ pc[r] = "take_forced_measurement"
    /\ trigger' = [trigger EXCEPT ![r] = e]
    /\ nTrigger' = [nTrigger EXCEPT ![r] = @ + 1]
    /\ question_mark(r, e)
    /\ UNCHANGED << waiters, registry, sample, response,
                    read, nRead, nRender, atLock, wrote >>
    /\ UNCHANGED << process, lockOrder >>

\* variant: the guard is dropped as soon as the sample is read
read_sample_ok_release(r, s) ==
    /\ pc[r] = "read_sample"
    /\ read' = [read EXCEPT ![r] = "ok"]
    /\ nRead' = [nRead EXCEPT ![r] = @ + 1]
    /\ sample' = [sample EXCEPT ![r] = s]
    /\ bme280' = NoOne
    /\ pc' = [pc EXCEPT ![r] = "gauge_temperature"]
    /\ UNCHANGED << waiters, registry, result, response,
                    trigger, nTrigger, nRender, atLock, wrote >>
    /\ UNCHANGED << process, lockOrder >>

\* bme280.read_sample()? succeeds with the sample s
read_sample_ok(r, s) ==
    /\ pc[r] = "read_sample"
    /\ read' = [read EXCEPT ![r] = "ok"]
    /\ nRead' = [nRead EXCEPT ![r] = @ + 1]
    /\ sample' = [sample EXCEPT ![r] = s]
    /\ pc' = [pc EXCEPT ![r] = "gauge_temperature"]
    /\ UNCHANGED << bme280, waiters, registry, result, response,
                    trigger, nTrigger, nRender, atLock, wrote >>
    /\ UNCHANGED << process, lockOrder >>

\* variant: the temperature gauge is written before the read's error is looked at
read_sample_err_partial(r, e) ==
    /\ pc[r] = "read_sample"
    /\ read' = [read EXCEPT ![r] = e]
    /\ nRead' = [nRead EXCEPT ![r] = @ + 1]
    /\ registry' = [registry EXCEPT !["temperature"] = Some(F64From(F32(Base["temperature"])))]
    /\ wrote' = [wrote EXCEPT ![r] = @ \cup {"temperature"}]
    /\ result' = [result EXCEPT ![r] = ErrResult(e)]
    /\ bme280' = NoOne
    /\ pc' = [pc EXCEPT ![r] = "returned"]
    /\ UNCHANGED << waiters, sample, response, trigger, nTrigger, nRender, atLock >>
    /\ UNCHANGED << process, lockOrder >>

\* bme280.read_sample()? fails with e
read_sample_err(r, e) ==
    /\ pc[r] = "read_sample"
    /\ read' = [read EXCEPT ![r] = e]
    /\ nRead' = [nRead EXCEPT ![r] = @ + 1]
    /\ question_mark(r, e)
    /\ UNCHANGED << waiters, registry, sample, response,
                    trigger, nTrigger, nRender, atLock, wrote >>
    /\ UNCHANGED << process, lockOrder >>

\* variant: an absent channel resets its gauge
gauge_reset(r, name, next) ==
    /\ IF IsSome(sample[r][name])
       THEN /\ registry' = [registry EXCEPT ![name] = Some(F64From(Unwrap(sample[r][name])))]
            /\ wrote' = [wrote EXCEPT ![r] = @ \cup {name}]
       ELSE /\ registry' = [registry EXCEPT ![name] = None]
            /\ UNCHANGED wrote
    /\ pc' = [pc EXCEPT ![r] = next]
    /\ UNCHANGED << bme280, waiters, sample, result, response,
                    trigger, read, nTrigger, nRead, nRender, atLock >>
    /\ UNCHANGED << process, lockOrder >>

\* if let Some(x) = <channel> { metrics::gauge!(name, f64::from(x)); }
gauge(r, name, next) ==
    /\ IF IsSome(sample[r][name])
       THEN /\ registry' = [registry EXCEPT ![name] = Some(F64From(Unwrap(sample[r][name])))]
            /\ wrote' = [wrote EXCEPT ![r] = @ \cup {name}]
       ELSE UNCHANGED << registry, wrote >>
    /\ pc' = [pc EXCEPT ![r] = next]
    /\ UNCHANGED << bme280, waiters, sample, result, response,
                    trigger, read, nTrigger, nRead, nRender, atLock >>
    /\ UNCHANGED << process, lockOrder >>

gauge_temperature(r) ==
    /\ pc[r] = "gauge_temperature"
    /\ gauge(r, "temperature", "gauge_pressure")

gauge_pressure(r) ==
    /\ pc[r] = "gauge_pressure"
    /\ gauge(r, "pressure", "gauge_humidity")

gauge_humidity(r) ==
    /\ pc[r] = "gauge_humidity"
    /\ gauge(r, "humidity", "render")

\* variant: render is an error while a gauge has no value
prometheus_render_needs_value(r) ==
    /\ pc[r] = "render"
    /\ result' = [result EXCEPT ![r] =
                    IF \A g \in GaugeNames : IsSome(registry[g])
                    THEN OkResult(render(registry))
                    ELSE ErrResult("NoValue")]
    /\ nRender' = [nRender EXCEPT ![r] = @ + 1]
    /\ pc' = [pc EXCEPT ![r] = "return"]
    /\ UNCHANGED << bme280, waiters, registry, sample, response,
                    trigger, read, nTrigger, nRead, atLock, wrote >>
    /\ UNCHANGED << process, lockOrder >>

\* app_state.prometheus.render(): the body is built from the registry as it is now
prometheus_render(r) ==
    /\ pc[r] = "render"
    /\ result' = [result EXCEPT ![r] = OkResult(render(registry))]
    /\ nRender' = [nRender EXCEPT ![r] = @ + 1]
    /\ pc' = [pc EXCEPT ![r] = "return"]
    /\ UNCHANGED << bme280, waiters, registry, sample, response,
                    trigger, read, nTrigger, nRead, atLock, wrote >>
    /\ UNCHANGED << process, lockOrder >>

\* the handler returns Ok(body): its locals go out of scope, the guard is dropped
return_ok(r) ==
    /\ pc[r] = "return"
    /\ bme280' = NoOne
    /\ pc' = [pc EXCEPT ![r] = "returned"]
    /\ UNCHANGED << waiters, registry, sample, result, response, ghost >>
    /\ UNCHANGED << process, lockOrder >>

\* axum turns the handler's Result into the response: Ok(String) is a 200 with
\* the text, Err(AppError) goes through AppError::into_response
into_response(r) ==
    /\ pc[r] = "returned"
    /\ response' = [response EXCEPT ![r] =
                      IF result[r].kind = "Ok"
                      THEN [status |-> 200, body |-> result[r].body]
                      ELSE [status |-> 500, body |-> Kapot(result[r].err)]]
    /\ pc' = [pc EXCEPT ![r] = "responded"]
    /\ UNCHANGED << bme280, waiters, registry, sample, result, ghost >>
    /\ UNCHANGED << process, lockOrder >>

Next ==
    \/ \E ok \in BOOLEAN : install_recorder(ok)
    \/ \E ok \in BOOLEAN : I2cdev_new(ok)
    \/ \E ok \in BOOLEAN : bme280_init(ok)
    \/ \E ok \in BOOLEAN : set_sampling_configuration(ok)
    \/ \E ok \in BOOLEAN : serve(ok)
    \/ \E r \in Requests : metrics(r)
    \/ \E r \in Requests : lock(r)
    \/ \E r \in Requests : cancel(r)
    \/ \E r \in Requests : take_forced_measurement_ok(r)
    \/ \E r \in Requests, e \in Errors : take_forced_measurement_err(r, e)
    \/ \E r \in Requests, s \in Samples : read_sample_ok(r, s)
    \/ \E r \in Requests, e \in Errors : read_sample_err(r, e)
    \/ \E r \in Requests : gauge_temperature(r)
    \/ \E r \in Requests : gauge_pressure(r)
    \/ \E r \in Requests : gauge_humidity(r)
    \/ \E r \in Requests : prometheus_render(r)
    \/ \E r \in Requests : return_ok(r)
    \/ \E r \in Requests : into_response(r)

Spec == Init /\ [][Next]_vars

\* the steps of one request's handler that the runtime and the sensor driver
\* take on their own: the task is polled (the mutex wakes its waiters in
\* order), each sensor call returns, the response is written
HandlerStep(r) ==
    \/ lock(r)
    \/ take_forced_measurement_ok(r)
    \/ \E e \in Errors : take_forced_measurement_err(r, e)
    \/ \E s \in Samples : read_sample_ok(r, s)
    \/ \E e \in Errors : read_sample_err(r, e)
    \/ gauge_temperature(r)
    \/ gauge_pressure(r)
    \/ gauge_humidity(r)
    \/ prometheus_render(r)
    \/ return_ok(r)
    \/ into_response(r)

\* the samples that differ in which channels are present, all of one measurement:
\* the handler branches on presence only, never on the number read
PresenceSamples ==
    { s \in Samples : \A g \in GaugeNames : IsSome(s[g]) => Unwrap(s[g]) = F32(Base[g] + 1) }

\* Next with read_sample drawing from PresenceSamples
FairNext ==
    \/ \E ok \in BOOLEAN : install_recorder(ok)
    \/ \E ok \in BOOLEAN : I2cdev_new(ok)
    \/ \E ok \in BOOLEAN : bme280_init(ok)
    \/ \E ok \in BOOLEAN : set_sampling_configuration(ok)
    \/ \E ok \in BOOLEAN : serve(ok)
    \/ \E r \in Requests : metrics(r)
    \/ \E r \in Requests : lock(r)
    \/ \E r \in Requests : cancel(r)
    \/ \E r \in Requests : take_forced_measurement_ok(r)
    \/ \E r \in Requests, e \in Errors : take_forced_measurement_err(r, e)
    \/ \E r \in Requests, s \in PresenceSamples : read_sample_ok(r, s)
    \/ \E r \in Requests, e \in Errors : read_sample_err(r, e)
    \/ \E r \in Requests : gauge_temperature(r)
    \/ \E r \in Requests : gauge_pressure(r)
    \/ \E r \in Requests : gauge_humidity(r)
    \/ \E r \in Requests : prometheus_render(r)
    \/ \E r \in Requests : return_ok(r)
    \/ \E r \in Requests : into_response(r)

\* the handlers under a fair scheduler; arrivals, disconnects and the startup
\* steps stay free
FairSpec == Init /\ [][FairNext]_vars /\ \A r \in Requests : WF_vars(HandlerStep(r))


(* ------------------------------ properties ------------------------------ *)
\* the handler holds (or is supposed to hold) the sensor from lock() to its return
Measuring == {"take_forced_measurement", "read_sample"}
Applying == {"gauge_temperature", "gauge_pressure", "gauge_humidity", "render", "return"}
Running == Measuring \cup Applying
Finished == {"returned", "responded"}

\* the number a present channel of r's sample carries
Num(r, g) == Unwrap(sample[r][g]).num

\* the registry a request leaves when it applies its sample to the one it locked on
Applied(r) ==
    [g \in GaugeNames |->
        IF IsSome(sample[r][g]) THEN Some([width |-> 64, num |-> Num(r, g)]) ELSE atLock[r][g]]

\* C1: at most one request at a time is inside the measurement sequence
\* (take_forced_measurement followed by read_sample) on the shared sensor.
C1_OneMeasurementAtATime ==
    \A r1, r2 \in Requests :
        (pc[r1] \in Measuring /\ pc[r2] \in Measuring) => r1 = r2

\* a request is between its trigger and its read while another waits in lock().await
C1_Witness ==
    \E r1, r2 \in Requests :
        /\ pc[r1] = "read_sample"
        /\ trigger[r1] = "ok"
        /\ pc[r2] = "lock"

\* C2: once a request's handler has finished (success, trigger failure or read
\* failure) it no longer holds the guard: the guard is held only by a request
\* that is still running.
C2_GuardOnlyWhileRunning ==
    \A r \in Requests :
        /\ bme280 = r => pc[r] \in Running
        /\ pc[r] \in Finished => bme280 # r

\* one request has finished on a failed trigger, another on a failed read, the guard is free
C2_Witness ==
    \E r1, r2 \in Requests :
        /\ pc[r1] \in Finished /\ trigger[r1] \in Errors
        /\ pc[r2] \in Finished /\ trigger[r2] = "ok" /\ read[r2] \in Errors
        /\ bme280 = NoOne

\* C3: a request whose measurement fails writes no gauge: in the step in which
\* its handler ends with the error, the registry is what it was when the request
\* acquired the guard, and the request has written nothing.
C3_FailureWritesNoGauge ==
    [][\A r \in Requests :
          (pc[r] \in Measuring /\ pc'[r] = "returned")
              => /\ result'[r].kind = "Err"
                 /\ registry' = atLock[r]
                 /\ registry' = registry
                 /\ wrote'[r] = {}]_vars

\* a request has failed on a registry that an earlier request had filled
C3_Witness ==
    \E r \in Requests :
        /\ pc[r] = "responded"
        /\ response[r].status = 500
        /\ \E g \in GaugeNames : IsSome(atLock[r][g])
        /\ registry = atLock[r]

\* C4: applying a successful reading with a channel absent leaves that channel's
\* gauge at its previous value; only the gauges of present channels are written.
C4_AbsentChannelKeepsGauge ==
    \A r \in Requests :
        pc[r] \in {"render", "return"} =>
            /\ \A g \in GaugeNames :
                  ~IsSome(sample[r][g]) => registry[g] = atLock[r][g]
            /\ wrote[r] = {g \in GaugeNames : IsSome(sample[r][g])}
            /\ pc[r] = "return" =>
                  \A g \in GaugeNames :
                     ~IsSome(sample[r][g]) => result[r].body[g] = render(atLock[r])[g]

\* a reading with an absent channel was applied over a gauge that held a value,
\* and a present channel of the same reading changed its gauge
C4_Witness ==
    \E r \in Requests, g1, g2 \in GaugeNames :
        /\ pc[r] = "return"
        /\ ~IsSome(sample[r][g1]) /\ IsSome(atLock[r][g1])
        /\ registry[g1] = atLock[r][g1]
        /\ IsSome(sample[r][g2]) /\ IsSome(atLock[r][g2])
        /\ registry[g2] # atLock[r][g2]

\* C5: the body of every 200 response shows, for each channel present in that
\* request's own reading, exactly that reading's value.
C5_BodyShowsOwnReading ==
    \A r \in Requests :
        response[r].status = 200 =>
            \A g \in GaugeNames :
                IsSome(sample[r][g]) => response[r].body[g] = Some(Num(r, g))

\* two requests answered 200 after reading different values of the same channel
C5_Witness ==
    \E r1, r2 \in Requests, g \in GaugeNames :
        /\ response[r1].status = 200 /\ response[r2].status = 200
        /\ IsSome(sample[r1][g]) /\ IsSome(sample[r2][g])
        /\ Num(r1, g) # Num(r2, g)

\* C6, as stated: on a successful reading the request has released the guard
\* before it writes any gauge and before it calls render.
C6_GuardReleasedBeforeApply ==
    \A r \in Requests : pc[r] \in Applying => bme280 # r

\* C6, amended: the request keeps the guard from lock() until its handler
\* returns, so it holds the guard while it writes the gauges and while it renders.
C6_GuardHeldUntilReturn ==
    \A r \in Requests :
        /\ pc[r] \in Applying => bme280 = r
        /\ pc[r] \in Finished => bme280 # r

\* a request has written a gauge and rendered, still holding the guard, while another waits
C6_Witness ==
    \E r1, r2 \in Requests :
        /\ pc[r1] = "return"
        /\ wrote[r1] # {}
        /\ nRender[r1] = 1
        /\ bme280 = r1
        /\ pc[r2] = "lock"

\* C7: a request is answered 200 with the rendered registry iff its trigger and
\* its read both succeeded; otherwise 500 with the marker followed by the error
\* of the step that failed.
C7_StatusAndBody ==
    \A r \in Requests :
        pc[r] = "responded" =>
            IF trigger[r] = "ok" /\ read[r] = "ok"
            THEN response[r] = [status |-> 200, body |-> render(Applied(r))]
            ELSE /\ response[r].status = 500
                 /\ response[r].body.marker = "kapot: "
                 /\ response[r].body.detail =
                        (IF trigger[r] \in Errors THEN trigger[r] ELSE read[r])
                 /\ response[r].body.detail \in Errors

\* one request was answered 200, another 500 for its read after a good trigger
C7_Witness ==
    \E r1, r2 \in Requests :
        /\ pc[r1] = "responded" /\ response[r1].status = 200
        /\ pc[r2] = "responded" /\ response[r2].status = 500
        /\ trigger[r2] = "ok" /\ read[r2] \in Errors

\* C8: a failed request leaves nothing behind: when no handler is running the
\* next waiting request can take the guard, and a request that comes after
\* failed ones makes its own measurement and is answered 200 when its trigger
\* and read succeed.
C8_FailureLeavesNoState ==
    /\ ((\A r \in Requests : pc[r] \notin Running) /\ waiters # << >>)
           => ENABLED lock(Head(waiters))
    /\ \A r \in Requests :
          ( /\ pc[r] = "responded"
            /\ trigger[r] = "ok" /\ read[r] = "ok"
            /\ \E q \in Requests : q < r /\ result[q].kind = "Err" )
              => /\ response[r].status = 200
                 /\ nTrigger[r] = 1 /\ nRead[r] = 1

\* every earlier request failed, and the last one was still answered 200
C8_Witness ==
    \E r \in Requests :
        /\ r > 1
        /\ \A q \in Requests : q < r => response[q].status = 500
        /\ response[r].status = 200

\* C9: no request is answered 200 unless it made its own trigger and its own
\* read, both successful, under its own guard, and rendered the body itself.
C9_EveryRequestResamples ==
    \A r \in Requests :
        (response[r].status = 200 \/ result[r].kind = "Ok") =>
            /\ trigger[r] = "ok" /\ read[r] = "ok"
            /\ nTrigger[r] = 1 /\ nRead[r] = 1 /\ nRender[r] = 1

\* a request was answered 200 after an earlier request had already been answered 200
C9_Witness ==
    \E r1, r2 \in Requests :
        /\ r1 < r2
        /\ response[r1].status = 200
        /\ response[r2].status = 200
        /\ nTrigger[r2] = 1 /\ nRead[r2] = 1

\* C10: within one request the trigger and the read are each invoked at most
\* once, the read only after a successful trigger, and a failure of either
\* ends the handler with the error without another sensor operation.
C10_NoRetry ==
    \A r \in Requests :
        /\ nTrigger[r] <= 1 /\ nRead[r] <= 1
        /\ nRead[r] = 1 => trigger[r] = "ok"
        /\ trigger[r] \in Errors =>
              /\ nRead[r] = 0
              /\ pc[r] \in Finished /\ result[r] = ErrResult(trigger[r])
        /\ read[r] \in Errors =>
              pc[r] \in Finished /\ result[r] = ErrResult(read[r])
        /\ (pc[r] = "responded" /\ result[r].kind = "Err") => response[r].status = 500

\* one request ended on a failed trigger without reading, another on a failed read
C10_Witness ==
    \E r1, r2 \in Requests :
        /\ pc[r1] = "responded" /\ trigger[r1] \in Errors
        /\ nTrigger[r1] = 1 /\ nRead[r1] = 0
        /\ pc[r2] = "responded" /\ read[r2] \in Errors
        /\ nTrigger[r2] = 1 /\ nRead[r2] = 1

\* C11: a handler can be dropped only while it waits in lock(): a cancelled
\* request has touched neither the sensor nor the guard and is out of the wait
\* queue, so the next waiter can lock; a measurement that was triggered goes on
\* to its read, and the guard is free once that request has finished.
C11_CancellationIsSafe ==
    /\ \A r \in Requests :
          pc[r] = "cancelled" =>
              /\ nTrigger[r] = 0 /\ nRead[r] = 0
              /\ bme280 # r
              /\ \A i \in 1..Len(waiters) : waiters[i] # r
    /\ \A r \in Requests :
          trigger[r] = "ok" =>
              /\ pc[r] = "read_sample" \/ nRead[r] = 1
              /\ pc[r] \notin Running => bme280 # r
    /\ (bme280 = NoOne /\ waiters # << >>) => ENABLED lock(Head(waiters))

\* a request was cancelled while it waited, and a later one ran its trigger and read
C11_Witness ==
    \E r1, r2 \in Requests :
        /\ r1 < r2
        /\ pc[r1] = "cancelled"
        /\ trigger[r2] = "ok" /\ nRead[r2] = 1
        /\ pc[r2] \in Finished

\* C13: a request is handled only after bus open, sensor init and sensor
\* configure have all succeeded; a failed startup step ends the process with
\* no request ever handled.
C13_ServesOnlyWhenInitialized ==
    /\ (phase = "serving" \/ \E r \in Requests : pc[r] # "idle") =>
          /\ phase = "serving"
          /\ i2c_bus = "open"
          /\ initialized
          /\ configuration = StartupConfiguration
    /\ phase = "panicked" =>
          /\ \A r \in Requests : pc[r] = "idle"
          /\ ~ENABLED Next

\* the server serves and has answered a request
C13_Witness ==
    /\ phase = "serving"
    /\ \E r \in Requests : pc[r] = "responded"

\* C14: the sampling configuration is applied exactly once, after init and
\* before any request, and no request changes it.
C14_ConfigurationAppliedOnce ==
    /\ nConfigure <= 1
    /\ nConfigure = 1 => (initialized /\ configuration = StartupConfiguration)
    /\ nConfigure = 0 => (configuration = PowerOnConfiguration /\ phase # "serving")
    /\ (phase = "serving" \/ \E r \in Requests : pc[r] # "idle") =>
          (nConfigure = 1 /\ configuration = StartupConfiguration)

\* a request has measured and been answered under the startup configuration
C14_Witness ==
    /\ nConfigure = 1
    /\ configuration = StartupConfiguration
    /\ \E r \in Requests : response[r].status = 200 /\ nTrigger[r] = 1

\* C15: render never fails: a request whose read succeeded ends Ok and is
\* answered 200, and a gauge that nobody has written shows no value.
C15_RenderNeverFails ==
    \A r \in Requests :
        (read[r] = "ok" /\ pc[r] \in {"return", "returned", "responded"}) =>
            /\ result[r].kind = "Ok"
            /\ pc[r] = "responded" => response[r].status = 200
            /\ \A g \in GaugeNames :
                  (~IsSome(atLock[r][g]) /\ ~IsSome(sample[r][g])) => result[r].body[g] = None

\* the first successful reading had all three channels absent and was answered 200
C15_Witness ==
    \E r \in Requests :
        /\ response[r].status = 200
        /\ \A g \in GaugeNames : ~IsSome(sample[r][g]) /\ response[r].body[g] = None

\* the handler positions that lie behind the write of each gauge
After ==
    [temperature |-> {"gauge_pressure", "gauge_humidity", "render", "return", "returned", "responded"},
     pressure |-> {"gauge_humidity", "render", "return", "returned", "responded"},
     humidity |-> {"render", "return", "returned", "responded"}]

\* the value of gauge g according to the order in which the guard was taken
LastWritten(g) ==
    LET idx == {i \in 1..Len(lockOrder) :
                   /\ read[lockOrder[i]] = "ok"
                   /\ pc[lockOrder[i]] \in After[g]
                   /\ IsSome(sample[lockOrder[i]][g])}
    IN IF idx = {} THEN None
       ELSE LET last == CHOOSE i \in idx : \A j \in idx : j <= i
            IN Some([width |-> 64, num |-> Num(lockOrder[last], g)])

GaugeSteps == {"gauge_temperature", "gauge_pressure", "gauge_humidity"}

\* C16: a gauge is written only by the request holding the guard, the writes
\* of two requests never interleave, and each gauge holds the value of the most
\* recent successful reading, in guard-acquisition order, that had the channel.
C16_WritesSerializedByGuard ==
    /\ \A r \in Requests : pc[r] \in GaugeSteps => bme280 = r
    /\ \A r1, r2 \in Requests :
          (pc[r1] \in GaugeSteps /\ pc[r2] \in GaugeSteps) => r1 = r2
    /\ \A g \in GaugeNames : registry[g] = LastWritten(g)

\* two readings in turn: one gauge holds the later reading's value, another
\* still the earlier one's because the later reading lacked that channel
C16_Witness ==
    \E r1, r2 \in Requests, g1, g2 \in GaugeNames :
        /\ r1 < r2
        /\ pc[r1] \in Finished /\ pc[r2] \in Finished
        /\ g1 \in wrote[r1] /\ g1 \in wrote[r2] /\ Num(r1, g1) # Num(r2, g1)
        /\ registry[g1] = Some([width |-> 64, num |-> Num(r2, g1)])
        /\ g2 \in wrote[r1] /\ g2 \notin wrote[r2]
        /\ registry[g2] = Some([width |-> 64, num |-> Num(r1, g2)])

\* C17: under fair scheduling, with every sensor call returning, a request that
\* waits for the guard is eventually answered unless it is cancelled, and a
\* request that holds the guard eventually gives it up.
C17_EveryRequestIsAnswered ==
    \A r \in Requests :
        /\ (pc[r] = "lock") ~> (pc[r] = "responded" \/ pc[r] = "cancelled")
        /\ (bme280 = r) ~> (bme280 # r)

\* every request took the guard in its turn and was answered, and the guard is free
C17_Witness ==
    /\ Len(lockOrder) = NumRequests
    /\ \A r \in Requests : pc[r] = "responded"
    /\ bme280 = NoOne

=============================================================================
